---- MODULE Spec2Model ----
(***************************************************************************)
(* Farmtech backend (backend/server.py): the soil-analysis handler         *)
(* analyze_soil (POST /api/soil/analyze) as a state machine.  Each request *)
(* is one invocation of the coroutine; invocations interleave at their     *)
(* await points (and across worker processes), sharing the wall clock, the *)
(* temporary directory and the soil_analyses collection.                   *)
(***************************************************************************)
EXTENDS Naturals, Sequences, FiniteSets, TLC

\* ------------------------------------------------------------------ bounds
MaxRequests == 2
MaxClock == 1

Requests == 1..MaxRequests

MaxAuthCalls == 4
MaxDocuments == 1

AuthCalls == 1..MaxAuthCalls

\* ------------------------------------------------------------ Optional[...]
None == <<>>
Some(v) == <<v>>
IsSome(o) == o # None
Val(o) == o[1]

\* -------------------------------------------------- the request's value sets
UserIds == {"u1", "u2"}

\* soil_image_base64 payloads, as sequences of characters
B64Valid == <<"Q", "U", "J", "D">>
B64BadPadding == <<"Q", "U", "J">>
ImagePayloads == {B64Valid, B64BadPadding}

\* a second image, of other bytes
B64Other == <<"Q", "U", "J", "E">>

Descriptions == {"Dark brown soil, Punjab"}

\* location dictionaries, as sequences of <<key, value>>: {'state': 'Punjab'}
Locations == {<< <<"state", "Punjab">> >>}

SoilAnalysisRequest ==
    [user_id : UserIds,
     soil_image_base64 : {None} \cup {Some(p) : p \in ImagePayloads},
     soil_description : {None} \cup {Some(d) : d \in Descriptions},
     location : {None} \cup {Some(l) : l \in Locations}]

\* ------------------------------------------------------- base64.b64decode
B64Chars ==
    <<"A", "B", "C", "D", "E", "F", "G", "H", "I", "J", "K", "L", "M",
      "N", "O", "P", "Q", "R", "S", "T", "U", "V", "W", "X", "Y", "Z",
      "a", "b", "c", "d", "e", "f", "g", "h", "i", "j", "k", "l", "m",
      "n", "o", "p", "q", "r", "s", "t", "u", "v", "w", "x", "y", "z",
      "0", "1", "2", "3", "4", "5", "6", "7", "8", "9", "+", "/">>

IsB64Char(ch) == \E i \in 1..Len(B64Chars) : B64Chars[i] = ch

B64Index(ch) == (CHOOSE i \in 1..Len(B64Chars) : B64Chars[i] = ch) - 1

\* The non-strict scan of binascii.a2b_base64: characters outside the
\* alphabet are skipped, a pad sequence that completes a quad ends the scan,
\* and an incomplete quad at the end of the input is an error.
RECURSIVE a2b_scan(_, _, _, _, _, _)
a2b_scan(s, i, quad_pos, leftchar, pads, out) ==
    IF i > Len(s)
    THEN [ok |-> quad_pos = 0, data |-> out]
    ELSE IF s[i] = "="
    THEN IF quad_pos >= 2 /\ quad_pos + pads + 1 >= 4
         THEN [ok |-> TRUE, data |-> out]
         ELSE a2b_scan(s, i + 1, quad_pos, leftchar,
                       IF quad_pos >= 2 THEN pads + 1 ELSE pads, out)
    ELSE IF ~IsB64Char(s[i])
    THEN a2b_scan(s, i + 1, quad_pos, leftchar, pads, out)
    ELSE LET v == B64Index(s[i]) IN
         CASE quad_pos = 0 -> a2b_scan(s, i + 1, 1, v, 0, out)
           [] quad_pos = 1 ->
                a2b_scan(s, i + 1, 2, v % 16, 0,
                         Append(out, leftchar * 4 + v \div 16))
           [] quad_pos = 2 ->
                a2b_scan(s, i + 1, 3, v % 4, 0,
                         Append(out, leftchar * 16 + v \div 4))
           [] quad_pos = 3 ->
                a2b_scan(s, i + 1, 0, 0, 0, Append(out, leftchar * 64 + v))

\* ok = FALSE stands for the raised binascii.Error
b64decode(s) == a2b_scan(s, 1, 0, 0, 0, <<>>)

\* ------------------------------------------------------------ truthiness
\* the image test of line 248: None and the empty string are both false
HasImage(request) ==
    IsSome(request.soil_image_base64) /\ Len(Val(request.soil_image_base64)) > 0

\* ------------------------------------------------------------------ texts
\* str(dict) of a location dictionary, given as a sequence of <<key, value>>
RECURSIVE DictItems(_)
DictItems(d) ==
    IF Len(d) = 0 THEN ""
    ELSE "'" \o d[1][1] \o "': '" \o d[1][2] \o "'"
         \o (IF Len(d) > 1 THEN ", " ELSE "") \o DictItems(Tail(d))

DictStr(d) == "{" \o DictItems(d) \o "}"

\* a prompt that formats the optional fields as they are, without the
\* placeholders
AnalysisPrompt_NoDefault(request) ==
    "Analyze this soil sample and provide comprehensive farming advice: "
    \o "Location: "
    \o (IF IsSome(request.location)
        THEN DictStr(Val(request.location)) ELSE "None")
    \o " Soil Description: "
    \o (IF IsSome(request.soil_description)
        THEN Val(request.soil_description) ELSE "None")
    \o " Please provide: 1. Soil type identification 2. Soil health assessment"
    \o " 3. Recommended crops suitable for this soil type"
    \o " 4. Fertilizer recommendations 5. Best planting season"
    \o " 6. Water requirements 7. Expected yield estimates"

\* the f-string of lines 229-245
AnalysisPrompt(request) ==
    "Analyze this soil sample and provide comprehensive farming advice: "
    \o "Location: "
    \o (IF IsSome(request.location) /\ Len(Val(request.location)) > 0
        THEN DictStr(Val(request.location)) ELSE "India")
    \o " Soil Description: "
    \o (IF IsSome(request.soil_description) /\ Val(request.soil_description) # ""
        THEN Val(request.soil_description) ELSE "Image provided")
    \o " Please provide: 1. Soil type identification 2. Soil health assessment"
    \o " 3. Recommended crops suitable for this soil type"
    \o " 4. Fertilizer recommendations 5. Best planting season"
    \o " 6. Water requirements 7. Expected yield estimates"

\* the session identifier of line 224
SessionId(user_id, ts) == "soil_analysis_" \o user_id \o "_" \o ToString(ts)

\* A text is the sequence of its fragments, a section heading being a
\* fragment of its own; the empty text is <<>>.
\* the hardcoded text of lines 301-330
FallbackText ==
    <<"Based on the soil sample analysis:",
      "**Soil Type**", ": Alluvial soil (common in Indian plains)",
      "**Soil Health**", ": Good fertility with adequate organic matter",
      "**Recommended Crops**", ": Rice, Wheat, Sugarcane, Vegetables",
      "**Fertilizer Recommendations**",
      ": NPK (10:26:26), Organic compost, Micronutrients",
      "**Best Planting Season**", ": Kharif: June-July, Rabi: October-November",
      "**Water Requirements**", ": Rice: 1200-1500mm, Wheat: 450-650mm",
      "**Expected Yield**", ": Rice: 40-50 quintals, Wheat: 35-45 quintals">>

\* what chat.send_message may return: the advisory service is external, its
\* text is whatever the model answers
ServiceTexts == {<<"**Soil Type**", ": loam",
                   "**Recommended Crops**", ": wheat, mustard">>}

\* an answer that follows the seven points of the prompt (lines 236-242)
SevenPointReply ==
    <<"1. Soil type identification", ": loam",
      "2. Soil health assessment", ": fair",
      "3. Recommended crops", ": wheat, mustard",
      "4. Fertilizer recommendations", ": urea",
      "5. Best planting season", ": Rabi",
      "6. Water requirements", ": 450mm",
      "7. Expected yield estimates", ": 18 quintals">>

\* the answers of a service that is not bound to the prompt: a partial
\* answer, a complete one, and the empty string
ServiceReplies == ServiceTexts \cup {SevenPointReply, <<>>}

\* ------------------------------------------------------------------ state
VARIABLES
    now,            \* the wall clock read by datetime.now()
    uuid_count,     \* how many uuid.uuid4() values have been drawn
    temp_files,     \* the temporary directory: path -> bytes written
    soil_analyses,  \* db.soil_analyses, in insertion order
    call,           \* per request: the invocation's position and locals
    db,             \* the other collections of the database
    auth            \* per auth call: the invocation's position and locals

vars == <<now, uuid_count, temp_files, soil_analyses, call, db, auth>>

\* An invocation's position, named after the request state machine:
\*   Idle            not yet received
\*   Received        analyze_soil entered (line 217)
\*   PromptBuilt     chat and analysis_prompt built (lines 221-245)
\*   ServiceInvoked  awaiting chat.send_message (line 267, 275 or 278)
\*   Success         response obtained, record built, awaiting insert_one
\*                   (lines 281-289)
\*   Failed          an exception reached `except Exception` (line 297)
\*   Persisted       insert_one returned (line 289)
\*   Responded       the handler returned (line 291 or 299)
NewCall ==
    [state |-> "Idle",
     request |-> None,
     session_id |-> None,
     analysis_prompt |-> None,
     temp_file_path |-> None,
     user_message |-> None,
     response |-> None,
     analysis_record |-> None,
     http |-> None,
     \* history: every chat.send_message call with its outcome, and the
     \* return statement taken ("live": line 291, "fallback": line 299)
     sent |-> <<>>,
     via |-> "none"]

\* the collections other than soil_analyses, each in insertion order
EmptyDb ==
    [users |-> <<>>,
     otp_storage |-> <<>>,
     manpower_listings |-> <<>>,
     equipment_listings |-> <<>>,
     transport_bookings |-> <<>>,
     inventory_items |-> <<>>]

\* An auth call's position:
\*   Idle        not yet received
\*   InsertOtp   request_otp awaits otp_storage.insert_one (line 126)
\*   FindOtp     verify_otp awaits otp_storage.find_one (line 139)
\*   FindUser    verify_otp awaits users.find_one (line 148)
\*   FindExisting  register_user awaits users.find_one (line 160)
\*   InsertUser  register_user awaits users.insert_one (line 167)
\*   Done        the handler returned or raised
NewAuthCall ==
    [op |-> "none",
     pc |-> "Idle",
     request |-> None,
     doc |-> None,
     http |-> None,
     \* history: how many documents otp_storage and users held when the
     \* call's find_one on them was served
     otps_seen |-> 0,
     users_seen |-> 0]

Init ==
    /\ now = 0
    /\ uuid_count = 0
    /\ temp_files = <<>>
    /\ soil_analyses = <<>>
    /\ call = [r \in Requests |-> NewCall]
    /\ db = EmptyDb
    /\ auth = [a \in AuthCalls |-> NewAuthCall]

\* ------------------------------------------------------- library behaviour
\* a generator that returns the same identifier every time
uuid4_Constant(n) == 1

\* str(uuid.uuid4()): the n-th value drawn, distinct from the earlier ones
uuid4(n) == n

\* a temporary file under one fixed name
NamedTemporaryFile_Fixed(files) == 1

\* tempfile.NamedTemporaryFile(delete=False): a name no existing file has
NamedTemporaryFile(files) ==
    CHOOSE p \in 1..(Cardinality(DOMAIN files) + 1) : p \notin DOMAIN files

\* temp_file.write(image_data) on the new file
WriteFile(files, path, data) ==
    [p \in DOMAIN files \cup {path} |-> IF p = path THEN data ELSE files[p]]

\* os.unlink(path)
Unlink(files, path) == [p \in DOMAIN files \ {path} |-> files[p]]

\* UserMessage(text=..., file_contents=[FileContentWithMimeType(...)])
ImageMessage(prompt, path) ==
    [text |-> prompt,
     file_contents |-> <<[file_path |-> path, mime_type |-> "image/jpeg"]>>]

\* UserMessage(text=...)
TextMessage(prompt) == [text |-> prompt, file_contents |-> <<>>]

\* an insert that overwrites what the collection held
InsertOne_Replace(collection, doc) == <<doc>>

\* an insert that stores the document twice
InsertOne_Twice(collection, doc) == Append(Append(collection, doc), doc)

\* db.soil_analyses.insert_one(doc), acknowledged
InsertOne(collection, doc) == Append(collection, doc)

\* ------------------------------------------------- analyze_soil, by parts
\* lines 221-245: the chat with its session id, and the prompt
BuildChat(c, ts) ==
    [c EXCEPT !.session_id = Some(SessionId(Val(c.request).user_id, ts)),
              !.analysis_prompt = Some(AnalysisPrompt(Val(c.request))),
              !.state = "PromptBuilt"]

\* `response = await chat.send_message(user_message)` is entered
Submit(c, msg) ==
    [c EXCEPT !.user_message = Some(msg),
              !.sent = Append(@, [message |-> msg, status |-> "pending",
                                  reply |-> None]),
              !.state = "ServiceInvoked"]

\* the awaited send_message returns or raises: the outcome of the last call
Settle(c, status, reply) ==
    [c EXCEPT !.sent[Len(c.sent)].status = status,
              !.sent[Len(c.sent)].reply = reply]

\* a decode error handled like a failed image submission: text-only
DecodeError_TextOnly(c) == Submit(c, TextMessage(Val(c.analysis_prompt)))

\* a decode error that sends the invocation back to the attachment step
DecodeError_Retry(c) == [c EXCEPT !.state = "PromptBuilt"]

\* line 250 raises binascii.Error: it is outside the inner try, so the
\* exception goes to `except Exception` of line 297
DecodeError(c) == [c EXCEPT !.state = "Failed"]

\* a failed image submission that gives up instead of degrading
ImageSendError_GiveUp(c) == [c EXCEPT !.state = "Failed"]

\* lines 272-275: the image-bearing send_message raised
ImageSendError(c) == Submit(c, TextMessage(Val(c.analysis_prompt)))

\* a failed text-only submission that is submitted again
TextSendError_Retry(c) == Submit(c, TextMessage(Val(c.analysis_prompt)))

\* line 275 or 278 raises: nothing but `except Exception` of line 297
\* catches it
TextSendError(c) == [c EXCEPT !.state = "Failed"]

\* a record that stores no result text
AnalysisRecord_NoResult(id, request, response, ts) ==
    [id |-> id,
     user_id |-> request.user_id,
     analysis_result |-> <<>>,
     created_at |-> ts,
     location |-> request.location]

\* lines 281-287
AnalysisRecord(id, request, response, ts) ==
    [id |-> id,
     user_id |-> request.user_id,
     analysis_result |-> response,
     created_at |-> ts,
     location |-> request.location]

\* send_message returned `text`: lines 281-289 up to the awaited insert_one
OnResponse(c, text, id, ts) ==
    [c EXCEPT !.response = Some(text),
              !.analysis_record =
                  Some(AnalysisRecord(id, Val(c.request), text, ts)),
              !.state = "Success"]

\* an insert failure that is swallowed: the handler goes on to line 291
InsertError_Swallow(c) == [c EXCEPT !.state = "Persisted"]

\* an insert failure nothing catches: the framework answers 500
InsertError_Propagate(c) ==
    [c EXCEPT !.http = Some([status |-> 500,
                             body |-> [detail |-> "Internal Server Error"]]),
              !.state = "Responded"]

\* line 289 raises: `except Exception` of line 297 catches it
InsertError(c) == [c EXCEPT !.state = "Failed"]

\* lines 291-295
LiveResponse(record, response) ==
    [status |-> 200,
     body |-> [analysis_id |-> record.id,
               result |-> response,
               timestamp |-> record.created_at]]

\* a fallback whose result text is empty
FallbackResponse_Empty(id, ts) ==
    [status |-> 200,
     body |-> [analysis_id |-> id, result |-> <<>>, timestamp |-> ts]]

\* a fallback that returns only the first line of the text
FallbackResponse_Truncated(id, ts) ==
    [status |-> 200,
     body |-> [analysis_id |-> id, result |-> <<FallbackText[1]>>,
               timestamp |-> ts]]

\* lines 297-332
FallbackResponse(id, ts) ==
    [status |-> 200,
     body |-> [analysis_id |-> id, result |-> FallbackText, timestamp |-> ts]]

\* ---------------------------------------------------------------- actions
\* the clock advances between any two steps, or does not
Tick ==
    /\ now < MaxClock
    /\ now' = now + 1
    /\ UNCHANGED <<uuid_count, temp_files, soil_analyses, call, db, auth>>

\* POST /api/soil/analyze arrives with a body of `bodies`; requests are
\* numbered in arrival order
ReceiveFrom(r, bodies) ==
    /\ call[r].state = "Idle"
    /\ \A q \in Requests : q < r => call[q].state # "Idle"
    /\ \E body \in bodies :
          call' = [call EXCEPT ![r].request = Some(body),
                               ![r].state = "Received"]
    /\ UNCHANGED <<now, uuid_count, temp_files, soil_analyses, db, auth>>

Receive(r) == ReceiveFrom(r, SoilAnalysisRequest)

\* lines 221-245
BuildPrompt(r) ==
    /\ call[r].state = "Received"
    /\ call' = [call EXCEPT ![r] = BuildChat(call[r], now)]
    /\ UNCHANGED <<now, uuid_count, temp_files, soil_analyses, db, auth>>

\* lines 248-267 with an image, lines 276-278 without: up to the first await
Attach(r) ==
    LET c == call[r]
        request == Val(c.request)
        prompt == Val(c.analysis_prompt)
    IN  /\ c.state = "PromptBuilt"
        /\ IF HasImage(request)
           THEN LET image_data == b64decode(Val(request.soil_image_base64))
                    temp_file_path == NamedTemporaryFile(temp_files)
                IN  IF ~image_data.ok
                    THEN /\ call' = [call EXCEPT ![r] = DecodeError(c)]
                         /\ UNCHANGED temp_files
                    ELSE /\ temp_files' = WriteFile(temp_files, temp_file_path,
                                                    image_data.data)
                         /\ call' = [call EXCEPT ![r] =
                               Submit([c EXCEPT !.temp_file_path =
                                                   Some(temp_file_path)],
                                      ImageMessage(prompt, temp_file_path))]
           ELSE /\ call' = [call EXCEPT ![r] = Submit(c, TextMessage(prompt))]
                /\ UNCHANGED temp_files
        /\ UNCHANGED <<now, uuid_count, soil_analyses, db, auth>>

\* the awaited send_message returns a text: line 270 after an image-bearing
\* call, then lines 281-289
ServiceReturnFrom(r, texts) ==
    LET c == call[r]
        msg == Val(c.user_message)
    IN  /\ c.state = "ServiceInvoked"
        /\ \E text \in texts :
              call' = [call EXCEPT ![r] =
                          OnResponse(Settle(c, "returned", Some(text)), text,
                                     uuid4(uuid_count + 1), now)]
        /\ uuid_count' = uuid_count + 1
        /\ temp_files' = IF Len(msg.file_contents) > 0
                         THEN Unlink(temp_files, Val(c.temp_file_path))
                         ELSE temp_files
        /\ UNCHANGED <<now, soil_analyses, db, auth>>

ServiceReturn(r) == ServiceReturnFrom(r, ServiceTexts)

\* the awaited send_message raises
ServiceRaise(r) ==
    LET c == call[r]
        msg == Val(c.user_message)
    IN  /\ c.state = "ServiceInvoked"
        /\ call' = [call EXCEPT ![r] =
                       IF Len(msg.file_contents) > 0
                       THEN ImageSendError(Settle(c, "raised", None))
                       ELSE TextSendError(Settle(c, "raised", None))]
        /\ UNCHANGED <<now, uuid_count, temp_files, soil_analyses, db, auth>>

\* the awaited insert_one is acknowledged
InsertAck(r) ==
    LET c == call[r]
    IN  /\ c.state = "Success"
        /\ soil_analyses' = InsertOne(soil_analyses, Val(c.analysis_record))
        /\ call' = [call EXCEPT ![r].state = "Persisted"]
        /\ UNCHANGED <<now, uuid_count, temp_files, db, auth>>

\* the awaited insert_one raises
InsertRaise(r) ==
    /\ call[r].state = "Success"
    /\ call' = [call EXCEPT ![r] = InsertError(call[r])]
    /\ UNCHANGED <<now, uuid_count, temp_files, soil_analyses, db, auth>>

\* lines 291-295
Respond(r) ==
    LET c == call[r]
    IN  /\ c.state = "Persisted"
        /\ call' = [call EXCEPT
                       ![r].http = Some(LiveResponse(Val(c.analysis_record),
                                                     Val(c.response))),
                       ![r].via = "live",
                       ![r].state = "Responded"]
        /\ UNCHANGED <<now, uuid_count, temp_files, soil_analyses, db, auth>>

\* lines 297-332
Fallback(r) ==
    /\ call[r].state = "Failed"
    /\ call' = [call EXCEPT
                   ![r].http = Some(FallbackResponse(uuid4(uuid_count + 1), now)),
                   ![r].via = "fallback",
                   ![r].state = "Responded"]
    /\ uuid_count' = uuid_count + 1
    /\ UNCHANGED <<now, temp_files, soil_analyses, db, auth>>

\* the steps of one invocation once it is received
Advance(r) ==
    \/ BuildPrompt(r)
    \/ Attach(r)
    \/ ServiceReturn(r)
    \/ ServiceRaise(r)
    \/ InsertAck(r)
    \/ InsertRaise(r)
    \/ Respond(r)
    \/ Fallback(r)

Next ==
    \/ Tick
    \/ \E r \in Requests : Receive(r)
    \/ \E r \in Requests : Advance(r)

Spec == Init /\ [][Next]_vars

\* The handler's control flow reads only soil_image_base64: the bodies that
\* differ in nothing else
ControlFlowRequests ==
    {b \in SoilAnalysisRequest :
        b.user_id = "u1" /\ b.soil_description = None /\ b.location = None}

ReceiveControl(r) == ReceiveFrom(r, ControlFlowRequests)

NextFair ==
    \/ Tick
    \/ \E r \in Requests : ReceiveControl(r)
    \/ \E r \in Requests : Advance(r)

\* every started invocation keeps running: the event loop resumes a
\* coroutine whose awaited call has returned or raised
FairSpec ==
    Init /\ [][NextFair]_vars /\ \A r \in Requests : WF_vars(Advance(r))

\* Requests that carry neither a description nor an image, answered by a
\* service that may return any of ServiceReplies
BareRequests ==
    {b \in SoilAnalysisRequest : ~HasImage(b) /\ b.soil_description = None}

ReceiveBare(r) == ReceiveFrom(r, BareRequests)

ServiceReturnAny(r) == ServiceReturnFrom(r, ServiceReplies)

AdviceNext ==
    \/ Tick
    \/ \E r \in Requests : ReceiveBare(r)
    \/ \E r \in Requests :
          \/ BuildPrompt(r)
          \/ Attach(r)
          \/ ServiceReturnAny(r)
          \/ ServiceRaise(r)
          \/ InsertAck(r)
          \/ InsertRaise(r)
          \/ Respond(r)
          \/ Fallback(r)

AdviceSpec == Init /\ [][AdviceNext]_vars

\* Requests over every shape of the optional fields: missing, empty and
\* filled (an empty image string, an empty description, an empty dict)
PromptRequests ==
    [user_id : {"u1"},
     soil_image_base64 : {None, Some(<<>>), Some(B64Valid)},
     soil_description : {None, Some("")} \cup {Some(d) : d \in Descriptions},
     location : {None, Some(<<>>)} \cup {Some(l) : l \in Locations}]

ReceivePrompt(r) == ReceiveFrom(r, PromptRequests)

PromptNext ==
    \/ \E r \in Requests : ReceivePrompt(r)
    \/ \E r \in Requests : Advance(r)

PromptSpec == Init /\ [][PromptNext]_vars

\* Image-bearing requests with images of different bytes
ImageRequests ==
    [user_id : {"u1"},
     soil_image_base64 : {Some(B64Valid), Some(B64Other)},
     soil_description : {None},
     location : {None}]

ReceiveImage(r) == ReceiveFrom(r, ImageRequests)

ImageNext ==
    \/ \E r \in Requests : ReceiveImage(r)
    \/ \E r \in Requests : Advance(r)

ImageSpec == Init /\ [][ImageNext]_vars

\* ---------------------------------------------------- the auth endpoints
PhoneNumbers == {"9876543210", "9123456780"}

\* line 123
mock_otp == "123456"

Otps == {mock_otp, "000000"}

OTPRequest == [phone_number : PhoneNumbers]

OTPVerification == [phone_number : PhoneNumbers, otp : Otps]

UserRegistration ==
    [phone_number : PhoneNumbers,
     name : {"Test Farmer"},
     gender : {"male"},
     date_of_birth : {"1990-01-01"},
     user_types : {<<"farmer", "worker">>}]

\* collection.find_one({"phone_number": ...}): the first match, or None
FindByPhone(collection, phone_number) ==
    LET hits == {i \in 1..Len(collection) :
                    collection[i].phone_number = phone_number}
    IN  IF hits = {} THEN None
        ELSE Some(collection[CHOOSE i \in hits : \A j \in hits : i <= j])

\* otp_storage.find_one({"phone_number": ..., "otp": ...}), lines 139-142
FindOtp(collection, phone_number, otp) ==
    LET hits == {i \in 1..Len(collection) :
                    /\ collection[i].phone_number = phone_number
                    /\ collection[i].otp = otp}
    IN  IF hits = {} THEN None
        ELSE Some(collection[CHOOSE i \in hits : \A j \in hits : i <= j])

\* lines 126-131
OtpDocument(request, ts) ==
    [phone_number |-> request.phone_number,
     otp |-> mock_otp,
     created_at |-> ts,
     expires_at |-> ts + 300]

\* lines 33-42 and 164: UserProfile(**user_data.dict(), verified=True)
UserProfile(id, user_data, ts) ==
    [id |-> id,
     phone_number |-> user_data.phone_number,
     name |-> user_data.name,
     gender |-> user_data.gender,
     date_of_birth |-> user_data.date_of_birth,
     user_types |-> user_data.user_types,
     location |-> None,
     created_at |-> ts,
     verified |-> TRUE]

\* raise HTTPException(status_code=..., detail=...)
HTTPException(status_code, detail) ==
    [status |-> status_code, body |-> [detail |-> detail]]

\* a verification that answers new_user whatever users.find_one found
VerifyResponse_AlwaysNew(user, phone_number) ==
    [status |-> 200,
     body |-> [status |-> "new_user", phone_number |-> phone_number]]

\* lines 150-154
VerifyResponse(user, phone_number) ==
    IF IsSome(user)
    THEN [status |-> 200,
          body |-> [status |-> "existing_user", user |-> Val(user)]]
    ELSE [status |-> 200,
          body |-> [status |-> "new_user", phone_number |-> phone_number]]

\* an auth call arrives; calls are numbered in arrival order
AuthReceive(a, op, request, pc, doc) ==
    /\ auth[a].pc = "Idle"
    /\ \A b \in AuthCalls : b < a => auth[b].pc # "Idle"
    /\ auth' = [auth EXCEPT ![a].op = op,
                             ![a].request = Some(request),
                             ![a].doc = doc,
                             ![a].pc = pc]

AuthReturn(a, http) ==
    auth' = [auth EXCEPT ![a].http = Some(http), ![a].pc = "Done"]

\* POST /api/auth/request-otp, lines 120-131 up to the awaited insert_one
request_otp(a) ==
    /\ \E request \in OTPRequest :
          AuthReceive(a, "request_otp", request, "InsertOtp",
                      Some(OtpDocument(request, now)))
    /\ UNCHANGED <<now, uuid_count, temp_files, soil_analyses, call, db>>

\* the insert of line 126 is acknowledged; line 133
OtpInserted(a) ==
    /\ auth[a].pc = "InsertOtp"
    /\ db' = [db EXCEPT !.otp_storage = Append(@, Val(auth[a].doc))]
    /\ AuthReturn(a, [status |-> 200,
                      body |-> [message |-> "OTP sent successfully",
                                mock_otp |-> mock_otp]])
    /\ UNCHANGED <<now, uuid_count, temp_files, soil_analyses, call>>

\* POST /api/auth/verify-otp, lines 136-142 up to the awaited find_one
verify_otp(a) ==
    /\ \E request \in OTPVerification :
          AuthReceive(a, "verify_otp", request, "FindOtp", None)
    /\ UNCHANGED <<now, uuid_count, temp_files, soil_analyses, call, db>>

\* otp_storage.find_one is served: lines 144-148 up to the awaited
\* users.find_one
OtpLooked(a) ==
    LET request == Val(auth[a].request)
        otp_record == FindOtp(db.otp_storage, request.phone_number, request.otp)
    IN  /\ auth[a].pc = "FindOtp"
        /\ IF ~IsSome(otp_record)
           THEN auth' = [auth EXCEPT
                           ![a].http = Some(HTTPException(400, "Invalid OTP")),
                           ![a].otps_seen = Len(db.otp_storage),
                           ![a].pc = "Done"]
           ELSE auth' = [auth EXCEPT ![a].otps_seen = Len(db.otp_storage),
                                     ![a].pc = "FindUser"]
        /\ UNCHANGED <<now, uuid_count, temp_files, soil_analyses, call, db>>

\* users.find_one of line 148 is served: lines 150-154
UserLooked(a) ==
    LET request == Val(auth[a].request)
        user == FindByPhone(db.users, request.phone_number)
    IN  /\ auth[a].pc = "FindUser"
        /\ auth' = [auth EXCEPT
                       ![a].http = Some(VerifyResponse(user,
                                                       request.phone_number)),
                       ![a].users_seen = Len(db.users),
                       ![a].pc = "Done"]
        /\ UNCHANGED <<now, uuid_count, temp_files, soil_analyses, call, db>>

\* POST /api/auth/register, lines 157-160 up to the awaited find_one
register_user(a) ==
    /\ \E user_data \in UserRegistration :
          AuthReceive(a, "register_user", user_data, "FindExisting", None)
    /\ UNCHANGED <<now, uuid_count, temp_files, soil_analyses, call, db>>

\* users.find_one of line 160 is served: lines 161-167 up to the awaited
\* insert_one
ExistingLooked(a) ==
    LET user_data == Val(auth[a].request)
        existing_user == FindByPhone(db.users, user_data.phone_number)
    IN  /\ auth[a].pc = "FindExisting"
        /\ IF IsSome(existing_user)
           THEN /\ AuthReturn(a, HTTPException(400, "User already exists"))
                /\ UNCHANGED uuid_count
           ELSE /\ auth' = [auth EXCEPT
                               ![a].doc = Some(UserProfile(uuid4(uuid_count + 1),
                                                           user_data, now)),
                               ![a].users_seen = Len(db.users),
                               ![a].pc = "InsertUser"]
                /\ uuid_count' = uuid_count + 1
        /\ UNCHANGED <<now, temp_files, soil_analyses, call, db>>

\* the insert of line 167 is acknowledged; line 168
UserInserted(a) ==
    /\ auth[a].pc = "InsertUser"
    /\ db' = [db EXCEPT !.users = Append(@, Val(auth[a].doc))]
    /\ AuthReturn(a, [status |-> 200, body |-> Val(auth[a].doc)])
    /\ UNCHANGED <<now, uuid_count, temp_files, soil_analyses, call>>

\* an awaited store call of an auth handler raises: no handler catches it
\* and the framework answers 500
AuthStoreRaise(a) ==
    /\ auth[a].pc \in {"InsertOtp", "FindOtp", "FindUser", "FindExisting",
                       "InsertUser"}
    /\ AuthReturn(a, HTTPException(500, "Internal Server Error"))
    /\ UNCHANGED <<now, uuid_count, temp_files, soil_analyses, call, db>>

AuthNext ==
    \E a \in AuthCalls :
        \/ request_otp(a)
        \/ OtpInserted(a)
        \/ verify_otp(a)
        \/ OtpLooked(a)
        \/ UserLooked(a)
        \/ register_user(a)
        \/ ExistingLooked(a)
        \/ UserInserted(a)
        \/ AuthStoreRaise(a)

AuthSpec == Init /\ [][AuthNext]_vars

\* ------------------------------------------- the other writing endpoints
\* the bodies of the creating endpoints, their id given by the client
DocumentBodies == {[id |-> "d1", user_id |-> "u1"]}

\* `await db.<collection>.insert_one(<body>.dict())` and the return
CreateDocument(name) ==
    /\ Len(db[name]) < MaxDocuments
    /\ \E body \in DocumentBodies : db' = [db EXCEPT ![name] = Append(@, body)]
    /\ UNCHANGED <<now, uuid_count, temp_files, soil_analyses, call, auth>>

\* POST /api/manpower/create, lines 335-340
create_manpower_listing == CreateDocument("manpower_listings")

\* POST /api/equipment/create, lines 351-356
create_equipment_listing == CreateDocument("equipment_listings")

\* POST /api/transport/book, lines 388-393
book_transport == CreateDocument("transport_bookings")

\* POST /api/inventory/add, lines 396-401
add_inventory_item == CreateDocument("inventory_items")

\* The analyze invocations next to the endpoints that write the other
\* collections: one request-otp or register call and the four creations
StoreWriters == {a \in AuthCalls : a = 1}

StoreNext ==
    \/ \E r \in Requests : ReceiveControl(r)
    \/ \E r \in Requests : Advance(r)
    \/ \E a \in StoreWriters :
          \/ request_otp(a)
          \/ OtpInserted(a)
          \/ register_user(a)
          \/ ExistingLooked(a)
          \/ UserInserted(a)
    \/ create_manpower_listing
    \/ create_equipment_listing
    \/ book_transport
    \/ add_inventory_item

StoreSpec == Init /\ [][StoreNext]_vars

\* ------------------------------------------------------- reading a state
Req(r) == Val(call[r].request)
Started(r) == call[r].state # "Idle"
Responded(r) == call[r].state = "Responded"
Http(r) == Val(call[r].http)
Body(r) == Http(r).body

\* the positions of soil_analyses that hold a document with this id
StoredUnder(id) == {j \in 1..Len(soil_analyses) : soil_analyses[j].id = id}

\* how many documents of soil_analyses are the record this invocation built
InsertedBy(r) ==
    IF IsSome(call[r].analysis_record)
    THEN Cardinality(StoredUnder(Val(call[r].analysis_record).id))
    ELSE 0

\* the request carries an image whose payload b64decode rejects
DecodeFails(r) ==
    /\ Started(r)
    /\ HasImage(Req(r))
    /\ ~b64decode(Val(Req(r).soil_image_base64)).ok

\* the invocation is past lines 248-253
PastAttach(r) == call[r].state \notin {"Idle", "Received", "PromptBuilt"}

\* the invocation submitted to the advisory service and every submission raised
AllRaised(r) ==
    /\ Len(call[r].sent) > 0
    /\ \A i \in 1..Len(call[r].sent) : call[r].sent[i].status = "raised"

\* the first submission carried the image and raised
ImageRaised(r) ==
    /\ Len(call[r].sent) > 0
    /\ Len(call[r].sent[1].message.file_contents) > 0
    /\ call[r].sent[1].status = "raised"

\* the record was built and insert_one raised instead of storing it
InsertRaised(r) ==
    /\ call[r].state \in {"Failed", "Responded"}
    /\ IsSome(call[r].analysis_record)
    /\ InsertedBy(r) = 0

\* ================================================================= claims

\* C1: every analyze request - with or without an image, with a payload that
\* decodes or not, whether send_message and insert_one return or raise - is
\* answered with HTTP 200 and a body of exactly analysis_id, result and
\* timestamp; no response carries another status.
C1_AlwaysSuccess ==
    \A r \in Requests :
        /\ Responded(r) => IsSome(call[r].http)
        /\ IsSome(call[r].http) =>
              /\ Http(r).status = 200
              /\ DOMAIN Body(r) = {"analysis_id", "result", "timestamp"}

\* C1 witness: one request answered after its payload failed to decode and
\* another answered after its insert raised
C1_Witness ==
    \E r1, r2 \in Requests :
        /\ Responded(r1) /\ DecodeFails(r1)
        /\ Responded(r2) /\ InsertRaised(r2)

C4_FallbackVerbatim ==
    \A r \in Requests :
        Responded(r) /\ AllRaised(r) =>
            /\ Http(r).status = 200
            /\ Body(r).result = FallbackText
            /\ call[r].via = "fallback"

\* C4 witness: two answered requests with different bodies, one whose only
\* submission raised and one whose two submissions both raised
C4_Witness ==
    \E r1, r2 \in Requests :
        /\ Responded(r1) /\ AllRaised(r1) /\ Len(call[r1].sent) = 1
        /\ Responded(r2) /\ AllRaised(r2) /\ Len(call[r2].sent) = 2
        /\ Req(r1).user_id # Req(r2).user_id
        /\ Req(r1).soil_description # Req(r2).soil_description

\* C5: for every image-bearing request, the temporary file staged for the
\* image no longer exists once analyze has returned, on every exit path.
C5_TempFileRemoved ==
    \A r \in Requests :
        Responded(r) /\ IsSome(call[r].temp_file_path) =>
            Val(call[r].temp_file_path) \notin DOMAIN temp_files

\* C6 (as stated): when soil_image is present and its payload fails to
\* decode, analyze submits the prompt text-only, and if that submission
\* returns, the returned result is the service's text, not the fallback text.
C6_DecodeErrorDegrades ==
    \A r \in Requests :
        DecodeFails(r) /\ PastAttach(r) =>
            /\ Len(call[r].sent) = 1
            /\ call[r].sent[1].message =
                  TextMessage(Val(call[r].analysis_prompt))
            /\ Responded(r) /\ call[r].sent[1].status = "returned" =>
                  /\ Body(r).result = Val(call[r].sent[1].reply)
                  /\ Body(r).result # FallbackText

\* C6 (amended): when soil_image is present and its payload fails to decode,
\* analyze stages no temporary file and makes no advisory submission: the
\* error goes straight to the outer handler, and the call answers 200 with
\* the fixed fallback text and stores no record.
C6_DecodeErrorFallsBack ==
    \A r \in Requests :
        DecodeFails(r) /\ PastAttach(r) =>
            /\ call[r].state \in {"Failed", "Responded"}
            /\ Len(call[r].sent) = 0
            /\ call[r].temp_file_path = None
            /\ call[r].analysis_record = None
            /\ Responded(r) =>
                  /\ Http(r).status = 200
                  /\ Body(r).result = FallbackText
                  /\ StoredUnder(Body(r).analysis_id) = {}

\* C6 witness: a request with a description and an undecodable image has
\* been answered
C6_Witness ==
    \E r \in Requests :
        /\ DecodeFails(r) /\ Responded(r)
        /\ IsSome(Req(r).soil_description)

\* C7 (as stated): when the image-bearing submission raises, analyze submits
\* the same prompt text-only in the same invocation, and if that submission
\* returns, its text is persisted and returned as the live result: no
\* fallback text.
C7_ImageErrorDegradesToLive ==
    \A r \in Requests :
        ImageRaised(r) =>
            /\ Len(call[r].sent) = 2
            /\ call[r].sent[2].message =
                  TextMessage(call[r].sent[1].message.text)
            /\ Responded(r) /\ call[r].sent[2].status = "returned" =>
                  /\ Body(r).result = Val(call[r].sent[2].reply)
                  /\ Body(r).result # FallbackText
                  /\ \E j \in StoredUnder(Body(r).analysis_id) :
                        soil_analyses[j].analysis_result = Body(r).result

\* C7 (amended): when the image-bearing submission raises, analyze submits
\* the same prompt text-only in the same invocation; if that submission
\* returns and the insert that follows is acknowledged, its text is
\* persisted and returned as the live result; if the insert raises, the
\* fallback text is returned and nothing is persisted.
C7_ImageErrorDegrades ==
    \A r \in Requests :
        ImageRaised(r) =>
            /\ Len(call[r].sent) = 2
            /\ call[r].sent[2].message =
                  TextMessage(call[r].sent[1].message.text)
            /\ call[r].sent[2].message.text = Val(call[r].analysis_prompt)
            /\ Responded(r) /\ call[r].sent[2].status = "returned" =>
                  IF InsertRaised(r)
                  THEN /\ Body(r).result = FallbackText
                       /\ StoredUnder(Body(r).analysis_id) = {}
                  ELSE /\ Http(r).status = 200
                       /\ Body(r).result = Val(call[r].sent[2].reply)
                       /\ Body(r).result # FallbackText
                       /\ \E j \in StoredUnder(Body(r).analysis_id) :
                             soil_analyses[j].analysis_result = Body(r).result

\* C7 witness: two requests whose image submission raised and whose
\* text-only submission returned, one persisted and one whose insert raised
C7_Witness ==
    \E r1, r2 \in Requests :
        /\ ImageRaised(r1) /\ Responded(r1) /\ call[r1].via = "live"
        /\ ImageRaised(r2) /\ Responded(r2) /\ InsertRaised(r2)
        /\ call[r2].sent[2].status = "returned"

\* C8: under weak fairness of the handler's steps every received request
\* eventually reaches Responded, and Responded is the only state in which
\* an invocation has no further step.
C8_AlwaysResponds ==
    \A r \in Requests :
        /\ Started(r) ~> Responded(r)
        /\ [](Started(r) => (Responded(r) <=> ~ENABLED Advance(r)))

\* C8 witness: one invocation waits in Persisted while another waits in
\* Failed after its degraded submission raised
C8_Witness ==
    \E r1, r2 \in Requests :
        /\ call[r1].state = "Persisted"
        /\ call[r2].state = "Failed" /\ Len(call[r2].sent) = 2

\* C9: any two distinct analyze invocations, also concurrent ones and ones
\* for the same user_id, open advisory sessions with different session ids.
C9_DistinctSessions ==
    \A r1, r2 \in Requests :
        r1 # r2 /\ IsSome(call[r1].session_id) /\ IsSome(call[r2].session_id)
            => call[r1].session_id # call[r2].session_id

\* C10 (as stated): two invocations with identical request bodies produce
\* two distinct stored records whose ids differ and whose created_at differ,
\* and the two responses carry different analysis_id values.
C10_IdenticalRequestsDiffer ==
    \A r1, r2 \in Requests :
        r1 # r2 /\ Responded(r1) /\ Responded(r2) /\ Req(r1) = Req(r2) =>
            /\ Body(r1).analysis_id # Body(r2).analysis_id
            /\ \E j1 \in StoredUnder(Body(r1).analysis_id) :
               \E j2 \in StoredUnder(Body(r2).analysis_id) :
                  /\ j1 # j2
                  /\ soil_analyses[j1].id # soil_analyses[j2].id
                  /\ soil_analyses[j1].created_at # soil_analyses[j2].created_at

\* C10 (amended): two invocations with identical request bodies return
\* different analysis_id values, and when both return the live result they
\* have stored two distinct records whose ids differ; their created_at are
\* clock readings and need not differ.
C10_IdenticalRequestsDistinctIds ==
    \A r1, r2 \in Requests :
        r1 # r2 /\ Responded(r1) /\ Responded(r2) /\ Req(r1) = Req(r2) =>
            /\ Body(r1).analysis_id # Body(r2).analysis_id
            /\ call[r1].via = "live" /\ call[r2].via = "live" =>
                  /\ Cardinality(StoredUnder(Body(r1).analysis_id)) = 1
                  /\ Cardinality(StoredUnder(Body(r2).analysis_id)) = 1
                  /\ StoredUnder(Body(r1).analysis_id)
                        # StoredUnder(Body(r2).analysis_id)
                  /\ Len(soil_analyses) >= 2

\* C10 witness: two identical requests both answered live, their records
\* built at the same clock reading
C10_Witness ==
    \E r1, r2 \in Requests :
        /\ r1 # r2
        /\ Responded(r1) /\ call[r1].via = "live"
        /\ Responded(r2) /\ call[r2].via = "live"
        /\ Req(r1) = Req(r2)
        /\ Body(r1).timestamp = Body(r2).timestamp

\* the advisory section a fragment is the heading of, 0 for any other
\* fragment: the seven points of lines 236-242, under the headings of the
\* prompt or of the fallback text
SectionOf(fragment) ==
    CASE fragment \in {"**Soil Type**", "1. Soil type identification"} -> 1
      [] fragment \in {"**Soil Health**", "2. Soil health assessment"} -> 2
      [] fragment \in {"**Recommended Crops**", "3. Recommended crops"} -> 3
      [] fragment \in {"**Fertilizer Recommendations**",
                       "4. Fertilizer recommendations"} -> 4
      [] fragment \in {"**Best Planting Season**",
                       "5. Best planting season"} -> 5
      [] fragment \in {"**Water Requirements**", "6. Water requirements"} -> 6
      [] fragment \in {"**Expected Yield**", "7. Expected yield estimates"} -> 7
      [] OTHER -> 0

Sections(text) == {SectionOf(text[i]) : i \in 1..Len(text)} \ {0}

SevenSections == {1, 2, 3, 4, 5, 6, 7}

\* the request carries neither a description nor an image
Bare(r) == ~HasImage(Req(r)) /\ Req(r).soil_description = None

\* C11 (as stated): for every request lacking both soil_description and
\* soil_image, the returned result is not empty and contains all seven
\* advisory sections, on the live path as on the fallback path.
C11_SevenSectionsOnEveryPath ==
    \A r \in Requests :
        Responded(r) /\ Bare(r) =>
            /\ Body(r).result # <<>>
            /\ Sections(Body(r).result) = SevenSections

\* C11 (amended): for every request lacking both soil_description and
\* soil_image the response is well formed; on the fallback path the result
\* is the fixed text, not empty and with all seven sections; on the live
\* path the result is the text the service returned to the one text-only
\* submission, unchanged and unchecked.
C11_SevenSectionsOnFallback ==
    \A r \in Requests :
        Responded(r) /\ Bare(r) =>
            /\ Http(r).status = 200
            /\ DOMAIN Body(r) = {"analysis_id", "result", "timestamp"}
            /\ Len(call[r].sent) = 1
            /\ IF call[r].via = "fallback"
               THEN /\ Body(r).result # <<>>
                    /\ Sections(Body(r).result) = SevenSections
               ELSE /\ call[r].sent[1].status = "returned"
                    /\ Body(r).result = Val(call[r].sent[1].reply)

\* C11 witness: two bare requests answered, one with the fallback text and
\* one with the empty text the service returned
C11_Witness ==
    \E r1, r2 \in Requests :
        /\ Responded(r1) /\ Bare(r1) /\ call[r1].via = "fallback"
        /\ Responded(r2) /\ Bare(r2) /\ call[r2].via = "live"
        /\ Body(r2).result = <<>>

\* C12 (as stated): a raising insert_one is not handled by analyze: it
\* leaves the operation as a generic failure, and is not turned into a
\* success response with the fallback text.
C12_InsertFailurePropagates ==
    \A r \in Requests :
        Responded(r) /\ InsertRaised(r) => Http(r).status = 500

\* C12 (amended): a raising insert_one is caught by the outer handler of
\* line 297: the invocation goes to the fallback return, answers 200 with
\* the fixed fallback text under a fresh analysis_id that is not the id of
\* the record it had built, and stores nothing.
C12_InsertFailureFallsBack ==
    \A r \in Requests :
        InsertRaised(r) /\ Responded(r) =>
            /\ call[r].via = "fallback"
            /\ Http(r).status = 200
            /\ Body(r).result = FallbackText
            /\ Body(r).analysis_id # Val(call[r].analysis_record).id
            /\ StoredUnder(Body(r).analysis_id) = {}
            /\ StoredUnder(Val(call[r].analysis_record).id) = {}

\* C12 witness: a request without an image whose only submission returned
\* and whose insert raised has been answered, the store still empty
C12_Witness ==
    \E r \in Requests :
        /\ Responded(r) /\ InsertRaised(r)
        /\ ~HasImage(Req(r))
        /\ call[r].sent[1].status = "returned"
        /\ soil_analyses = <<>>

\* the submissions of an invocation that carried the image, and those that
\* carried the text alone
ImageSubmissions(r) ==
    {i \in 1..Len(call[r].sent) :
        Len(call[r].sent[i].message.file_contents) > 0}

TextSubmissions(r) ==
    {i \in 1..Len(call[r].sent) :
        Len(call[r].sent[i].message.file_contents) = 0}

\* C13: no retry.  Within one invocation the advisory service receives at
\* most one image-bearing and at most one text-only submission, the
\* text-only one never before the image-bearing one; a request without an
\* image causes exactly one submission, text-only, and no temporary file; a
\* text-only submission that raised is the invocation's last submission.
C13_NoRetry ==
    /\ \A r \in Requests :
          /\ Cardinality(ImageSubmissions(r)) <= 1
          /\ Cardinality(TextSubmissions(r)) <= 1
          /\ ImageSubmissions(r) \subseteq {1}
          /\ PastAttach(r) /\ ~HasImage(Req(r)) =>
                /\ Len(call[r].sent) = 1
                /\ TextSubmissions(r) = {1}
                /\ call[r].temp_file_path = None
          /\ \A i \in TextSubmissions(r) :
                call[r].sent[i].status = "raised" =>
                    /\ i = Len(call[r].sent)
                    /\ call[r].state \in {"Failed", "Responded"}
    /\ (\A r \in Requests : Started(r) => ~HasImage(Req(r))) =>
          temp_files = <<>>

\* C13 witness: a request without an image answered after its one
\* submission raised, next to an image-bearing request answered after its
\* image submission raised and its text-only submission returned
C13_Witness ==
    \E r1, r2 \in Requests :
        /\ Responded(r1) /\ ~HasImage(Req(r1))
        /\ call[r1].sent[1].status = "raised"
        /\ Responded(r2) /\ ImageRaised(r2)
        /\ call[r2].sent[2].status = "returned"

\* the prompt with the given texts in the place of the location and of the
\* description
PromptWith(location_text, description_text) ==
    "Analyze this soil sample and provide comprehensive farming advice: "
    \o "Location: " \o location_text
    \o " Soil Description: " \o description_text
    \o " Please provide: 1. Soil type identification 2. Soil health assessment"
    \o " 3. Recommended crops suitable for this soil type"
    \o " 4. Fertilizer recommendations 5. Best planting season"
    \o " 6. Water requirements 7. Expected yield estimates"

\* a location, a description is present when the field holds a non-empty
\* value
LocationPresent(r) == Req(r).location \notin {None, Some(<<>>)}
DescriptionPresent(r) == Req(r).soil_description \notin {None, Some("")}

\* C14: every prompt submitted to the advisory service embeds the request's
\* location when one is present (a non-empty dict, as Python prints it) and
\* 'India' when it is absent, and embeds soil_description when one is
\* present (a non-empty string) and 'Image provided' otherwise, with or
\* without an image in the request.
C14_PromptEmbedsInputs ==
    \A r \in Requests :
        \A i \in 1..Len(call[r].sent) :
            call[r].sent[i].message.text =
                PromptWith(IF LocationPresent(r)
                           THEN "{'state': 'Punjab'}" ELSE "India",
                           IF DescriptionPresent(r)
                           THEN "Dark brown soil, Punjab"
                           ELSE "Image provided")

\* C14 witness: a request with neither location, description nor image and
\* a request with all three have both submitted their prompt
C14_Witness ==
    \E r1, r2 \in Requests :
        /\ Len(call[r1].sent) > 0
        /\ ~LocationPresent(r1) /\ ~DescriptionPresent(r1) /\ ~HasImage(Req(r1))
        /\ Len(call[r2].sent) > 0
        /\ LocationPresent(r2) /\ DescriptionPresent(r2) /\ HasImage(Req(r2))

\* reading an auth call
AuthReq(a) == Val(auth[a].request)
AuthHttp(a) == Val(auth[a].http)
Answered(a, op) == auth[a].op = op /\ auth[a].pc = "Done"

\* the first n documents of a collection: collections only grow, so this
\* is the collection as it was when it held n documents
FirstDocs(collection, n) == SubSeq(collection, 1, n)

\* C15: a verify-otp call for a phone number and an OTP issued for it is
\* answered new_user when the users collection it looked at held no user
\* with that phone number, and existing_user with that user when it held
\* one, so in every state after a register for the number has succeeded;
\* it is refused with 400 only when no such OTP was stored.
C15_VerifyTellsUserStatus ==
    \A a \in AuthCalls :
        Answered(a, "verify_otp") /\ AuthHttp(a).status # 500 =>
            LET phone == AuthReq(a).phone_number
                otp_record == FindOtp(FirstDocs(db.otp_storage,
                                                auth[a].otps_seen),
                                      phone, AuthReq(a).otp)
                user == FindByPhone(FirstDocs(db.users, auth[a].users_seen),
                                    phone)
            IN  IF ~IsSome(otp_record)
                THEN AuthHttp(a).status = 400
                ELSE /\ AuthHttp(a).status = 200
                     /\ AuthHttp(a).body.status =
                           (IF IsSome(user) THEN "existing_user"
                            ELSE "new_user")
                     /\ IsSome(user) =>
                           /\ AuthHttp(a).body.user = Val(user)
                           /\ AuthHttp(a).body.user.phone_number = phone
                     /\ ~IsSome(user) =>
                           AuthHttp(a).body.phone_number = phone

\* C15 witness: for one phone number, a verification answered new_user, a
\* registration that succeeded, and a verification answered existing_user
C15_Witness ==
    \E a1, a2, a3 \in AuthCalls :
        /\ Answered(a1, "verify_otp") /\ AuthHttp(a1).status = 200
        /\ AuthHttp(a1).body.status = "new_user"
        /\ Answered(a2, "register_user") /\ AuthHttp(a2).status = 200
        /\ Answered(a3, "verify_otp") /\ AuthHttp(a3).status = 200
        /\ AuthHttp(a3).body.status = "existing_user"
        /\ AuthReq(a1).phone_number = AuthReq(a2).phone_number
        /\ AuthReq(a3).phone_number = AuthReq(a2).phone_number

\* C18: after any sequence of register calls, concurrent ones for the same
\* phone_number included, the users collection holds at most one user per
\* phone_number, and a register answered 200 found no user with its phone
\* number in the collection it was added to.
C18_OneUserPerPhone ==
    /\ \A i, j \in 1..Len(db.users) :
          db.users[i].phone_number = db.users[j].phone_number => i = j
    /\ \A a \in AuthCalls :
          Answered(a, "register_user") /\ AuthHttp(a).status = 200 =>
              Cardinality({i \in 1..Len(db.users) :
                              db.users[i].phone_number =
                                  AuthReq(a).phone_number}) = 1

\* C16: analyze is append-only.  A step of an analyze invocation changes no
\* other collection (users, otp_storage, listings, bookings, inventory) and
\* leaves soil_analyses as it was or with the invocation's own record added
\* at the end; no step of any endpoint modifies or removes a stored
\* AnalysisRecord.
C16_AppendOnly ==
    [][/\ \A r \in Requests :
            call'[r] # call[r] =>
                /\ db' = db
                /\ \/ soil_analyses' = soil_analyses
                   \/ /\ IsSome(call[r].analysis_record)
                      /\ soil_analyses' =
                            Append(soil_analyses, Val(call[r].analysis_record))
       /\ Len(soil_analyses') >= Len(soil_analyses)
       /\ SubSeq(soil_analyses', 1, Len(soil_analyses)) = soil_analyses
      ]_vars

\* C16 witness: an invocation has returned the live result after adding its
\* record behind an earlier one, the other collections holding documents
C16_Witness ==
    \E r \in Requests :
        /\ Responded(r) /\ call[r].via = "live"
        /\ Len(soil_analyses) = 2
        /\ soil_analyses[2] = Val(call[r].analysis_record)
        /\ Len(db.users) > 0 /\ Len(db.manpower_listings) > 0
        /\ Len(db.inventory_items) > 0

\* the invocation staged its image in a temporary file and has not removed
\* it (line 270 not reached)
Holding(r) ==
    /\ IsSome(call[r].temp_file_path)
    /\ call[r].sent[1].status # "returned"

\* C17: image-bearing requests in flight together use temporary files of
\* their own: no two invocations hold the same path at the same time, and
\* the file an invocation holds exists with the bytes of that invocation's
\* image, whatever the other invocations created or removed.
C17_PrivateTempFiles ==
    /\ \A r1, r2 \in Requests :
          r1 # r2 /\ Holding(r1) /\ Holding(r2) =>
              call[r1].temp_file_path # call[r2].temp_file_path
    /\ \A r \in Requests :
          Holding(r) =>
              /\ Val(call[r].temp_file_path) \in DOMAIN temp_files
              /\ temp_files[Val(call[r].temp_file_path)] =
                    b64decode(Val(Req(r).soil_image_base64)).data

\* C17 witness: two requests with different images both await their
\* image-bearing submission
C17_Witness ==
    \E r1, r2 \in Requests :
        /\ r1 # r2
        /\ call[r1].state = "ServiceInvoked" /\ Holding(r1)
        /\ call[r2].state = "ServiceInvoked" /\ Holding(r2)
        /\ Len(call[r1].sent) = 1 /\ Len(call[r2].sent) = 1
        /\ Req(r1).soil_image_base64 # Req(r2).soil_image_base64

====
